---- MODULE Spec2Model ----
(***************************************************************************)
(* Model of the retail ingestion pipeline                                  *)
(* (src/src/ingestion/retail_ingestion_pipeline.py) running against the    *)
(* tables bronze.retail_raw and bronze.load_metadata declared in           *)
(* src/src/database/schema_design.py.                                      *)
(*                                                                         *)
(* One invocation of ingest_retail_data is a process whose position is pc; *)
(* invocations follow each other (Return, then StartRun again) and share   *)
(* the two tables.  Every statement that talks to the database is a step   *)
(* of its own and may fail: because the row breaks a constraint of the DDL *)
(* or because the database is unreachable (an injected fault).             *)
(***************************************************************************)
EXTENDS Integers, Sequences, FiniteSets, TLC

\* ------------------------------------------------------------------ bounds
\* Longest source file, in rows.
MaxRows == 4
\* Number of invocations of ingest_retail_data in one behaviour.
MaxRuns == 2

\* self.batch_size: 10000 in the source, scaled to the files modelled here.
batch_size == 3
\* validation_config['min_records']: 100 in the source, scaled likewise.
min_records == 2

\* --------------------------------------------------- program configuration
\* invoice VARCHAR(20)
InvoiceWidth == 20

Null == "None"
\* NULL in an INTEGER column; the counters written there are never negative.
NullInt == -1
\* df before the file is read: no data frame is bound.
NoFrame == [columns |-> {}, rows |-> <<>>]
\* results['validation_results'] before validate_data_quality has returned.
NotValidated == [validated |-> FALSE]

\* ------------------------------------------------------------ source rows
\* Source rows (SourceRecord).  RecA and RecB are two different sales lines
\* (RecB with a negative price), RecLong carries an invoice number wider than the invoice column.
RecA == [InvoiceNo |-> "536365", StockCode |-> "85123A", Description |-> "HOLDER",
         Quantity |-> 6, InvoiceDate |-> "2010-12-01 08:26", UnitPrice |-> "2.55",
         CustomerID |-> "17850", Country |-> "United Kingdom"]
RecB == [RecA EXCEPT !.InvoiceNo = "536366", !.Quantity = 8, !.UnitPrice = "-1.00"]
RecLong == [RecA EXCEPT !.InvoiceNo = "C536379-ADJUSTMENT-0001"]

Records == {RecA, RecB, RecLong}

\* Paths the pipeline is started on.
Paths == {"retail.parquet", "retail.txt"}

\* Mutant: every path is taken for a parquet file.
SuffixAlwaysParquet(path) == ".parquet"

\* The suffix file_path.endswith() tests.
Suffix(path) == IF path = "retail.parquet" THEN ".parquet" ELSE ".txt"

RequiredColumns == {"InvoiceNo", "StockCode", "Quantity", "InvoiceDate", "UnitPrice", "Country"}
AllColumns == RequiredColumns \cup {"Description", "CustomerID"}

\* Column sets a file can have: the full header, or one without Country.
ColumnSets == {AllColumns, AllColumns \ {"Country"}}

RowSeqs == UNION {[1..n -> Records] : n \in 0..MaxRows}

\* What pd.read_parquet / pd.read_csv yields for a readable file.
DataFrames == [columns : ColumnSets, rows : RowSeqs]

\* ------------------------------------------------------------------ state
VARIABLES
    retail_raw,        \* bronze.retail_raw: the rows inserted so far, in order
    load_metadata,     \* bronze.load_metadata: load_id -> row
    uuids,             \* number of load ids uuid4() has handed out
    pc,                \* position of the running invocation
    file_path,         \* argument of ingest_retail_data
    load_id,           \* local load_id of ingest_retail_data
    df,                \* the DataFrame read from the file
    results,           \* the summary dictionary being built
    error_message,     \* str(e) of the exception on its way to the handler
    df_to_insert,      \* load_data_to_bronze: rows left after the duplicate filter
    skipped,           \* load_data_to_bronze: number of rows filtered out
    batch_num,         \* load_data_to_bronze: index of the current batch
    row_num,           \* load_data_to_bronze: next row of the row-by-row retry
    records_loaded,    \* load_data_to_bronze: counter
    records_failed,    \* load_data_to_bronze: counter
    log,               \* observations of the run (what was asked of the database)
    exit_code,         \* exit status of the process main() ran in
    peer,              \* a second invocation running beside this one
    probe,             \* a pure function called on its own: its inputs and results
    bronze             \* BronzeIngestionPipeline: its two tables and its run

vars == <<retail_raw, load_metadata, uuids, pc, file_path, load_id, df, results,
          error_message, df_to_insert, skipped, batch_num, row_num,
          records_loaded, records_failed, log, exit_code, peer, probe, bronze>>

loader == <<df_to_insert, skipped, batch_num, row_num, records_loaded, records_failed>>

\* What the steps of this invocation leave alone.
outside == <<exit_code, peer, probe, bronze>>

\* ---------------------------------------------------------------- hashing
\* column_mapping of load_data_to_bronze: source header -> table column.
Canonical(rec) ==
    [invoice |-> rec.InvoiceNo, stock_code |-> rec.StockCode,
     description |-> rec.Description, quantity |-> rec.Quantity,
     invoice_date |-> rec.InvoiceDate, unit_price |-> rec.UnitPrice,
     customer_id |-> rec.CustomerID, country |-> rec.Country]

\* row.to_dict() of a row of df_copy before it is hashed: the renamed source
\* columns and the three audit columns.
RowDict(rec, source_file, lid, now) ==
    [invoice |-> rec.InvoiceNo, stock_code |-> rec.StockCode,
     description |-> rec.Description, quantity |-> rec.Quantity,
     invoice_date |-> rec.InvoiceDate, unit_price |-> rec.UnitPrice,
     customer_id |-> rec.CustomerID, country |-> rec.Country,
     load_timestamp |-> now, source_file |-> source_file, load_id |-> lid]

\* Mutant: the load id of the run is joined to the hashed text.
generate_record_hash_with_load_id(record) ==
    <<record.invoice, record.stock_code, ToString(record.quantity),
      record.invoice_date, record.unit_price, record.customer_id, record.load_id>>

\* Mutant: country is joined to the hashed text as well.
generate_record_hash_with_country(record) ==
    <<record.invoice, record.stock_code, ToString(record.quantity),
      record.invoice_date, record.unit_price, record.customer_id, record.country>>

\* generate_record_hash: the digest of the six joined fields.  SHA-256 is taken
\* to be free of collisions, so the digest is the joined text itself, kept as
\* the sequence of its parts.
generate_record_hash(record) ==
    <<record.invoice, record.stock_code, ToString(record.quantity),
      record.invoice_date, record.unit_price, record.customer_id>>

\* datetime.now() of the run that was handed load id lid.
Now(lid) == "at " \o lid

\* A row of df_copy: renamed columns, audit columns, record_hash.
BronzeRow(rec, source_file, lid) ==
    [data |-> Canonical(rec), load_timestamp |-> Now(lid),
     source_file |-> source_file, load_id |-> lid,
     record_hash |-> generate_record_hash(RowDict(rec, source_file, lid, Now(lid)))]

RECURSIVE SelectSeq2(_, _)
\* s restricted to the rows whose hash is not in hashes, order kept.
SelectSeq2(s, hashes) ==
    IF s = <<>> THEN <<>>
    ELSE IF Head(s).record_hash \in hashes
         THEN SelectSeq2(Tail(s), hashes)
         ELSE <<Head(s)>> \o SelectSeq2(Tail(s), hashes)

\* Mutant: the duplicate filter drops nothing.
FilterNothing(df_copy, existing_hashes) == df_copy

\* df_copy[~df_copy['record_hash'].isin(existing_hashes)]
FilterDuplicates(df_copy, existing_hashes) == SelectSeq2(df_copy, existing_hashes)

\* Mutant: the table is taken to hold no hash.
ExistingHashesNone(table) == {}

\* SELECT record_hash FROM bronze.retail_raw
ExistingHashes(table) == {table[i].record_hash : i \in 1..Len(table)}

\* ------------------------------------------------------------ the tables
\* Column widths of bronze.retail_raw a row must respect.
ColumnsOk(row) == Len(row.data.invoice) <= InvoiceWidth

\* CONSTRAINT pk_bronze_retail_raw PRIMARY KEY (load_id)
PrimaryKeyOk(table) ==
    \A i, j \in 1..Len(table) : i # j => table[i].load_id # table[j].load_id

\* An INSERT of rows into bronze.retail_raw is accepted.
InsertAccepted(table, rows) ==
    /\ \A i \in 1..Len(rows) : ColumnsOk(rows[i])
    /\ PrimaryKeyOk(table \o rows)

\* CONSTRAINT chk_load_status
LoadStatusOk(status) == status \in {"STARTED", "COMPLETED", "FAILED"}

\* ------------------------------------------------------------- validation
\* ', '.join(issues)
RECURSIVE Join(_)
Join(issues) ==
    IF issues = <<>> THEN ""
    ELSE IF Len(issues) = 1 THEN Head(issues)
    ELSE Head(issues) \o ", " \o Join(Tail(issues))

\* validation_config['max_price']
max_price == 10000

\* validation_config['date_range'], the years of its two ends.
date_range == <<2009, 2012>>

\* The prices a UnitPrice column holds as numbers; anything else makes the
\* column an object column, and comparing it with 0 raises.
Numeric(price) == price \in {"2.55", "-1.00", "10000.01"}

\* A numeric UnitPrice, in pence.
Pence(price) ==
    CASE price = "2.55" -> 255
      [] price = "-1.00" -> 0 - 100
      [] price = "10000.01" -> 1000001

\* The InvoiceDate values pd.to_datetime parses; any other makes it raise.
Parseable(date) == date \in {"2010-12-01 08:26", "2008-06-30 10:00"}

\* The year of a parsed InvoiceDate.
Year(date) == IF date = "2010-12-01 08:26" THEN 2010 ELSE 2008

\* null_pct > max_null_percentage (0.1), for nulls out of n rows.
NullRateExceeded(nulls, n) == 10 * nulls > n

\* The body of validate_data_quality, with its first test (short) handed in.
\* Of the rows drawn here only CustomerID is ever null.
Validation(d, short) ==
    LET n == Len(d.rows)
        missing_columns == {col \in RequiredColumns : col \notin d.columns}
        null_customers == Cardinality({i \in 1..n : d.rows[i].CustomerID = Null})
        negative_price_count ==
            Cardinality({i \in 1..n : Pence(d.rows[i].UnitPrice) < 0})
        zero_quantities == Cardinality({i \in 1..n : d.rows[i].Quantity = 0})
        null_warnings ==
            IF "CustomerID" \in d.columns
               /\ NullRateExceeded(null_customers, n)
            THEN <<"High null percentage in CustomerID">> ELSE <<>>
        \* df['UnitPrice'] < 0 on a column holding text raises TypeError,
        \* caught by the outer handler (lines 198-201)
        price_raises == /\ "UnitPrice" \in d.columns
                        /\ \E i \in 1..n : ~Numeric(d.rows[i].UnitPrice)
        price_warnings ==
            IF "UnitPrice" \in d.columns /\ ~price_raises
            THEN (IF negative_price_count > 0
                  THEN <<"Found records with negative prices">> ELSE <<>>)
                 \o (IF \E i \in 1..n : Pence(d.rows[i].UnitPrice) > max_price * 100
                     THEN <<"Unusually high price detected">> ELSE <<>>)
            ELSE <<>>
        quantity_warnings ==
            IF "Quantity" \in d.columns /\ ~price_raises /\ zero_quantities > 0
            THEN <<"Found records with zero quantity">> ELSE <<>>
        dates_checked == "InvoiceDate" \in d.columns /\ ~price_raises
        \* pd.to_datetime raises inside the inner try (lines 181-182)
        date_raises == /\ dates_checked
                       /\ \E i \in 1..n : ~Parseable(d.rows[i].InvoiceDate)
        date_warnings ==
            IF /\ dates_checked /\ ~date_raises
               /\ \E i \in 1..n : \/ Year(d.rows[i].InvoiceDate) < date_range[1]
                                   \/ Year(d.rows[i].InvoiceDate) > date_range[2]
            THEN <<"Dates outside expected range">> ELSE <<>>
    IN  [is_valid |-> ~short /\ missing_columns = {} /\ ~price_raises,
         total_records |-> n,
         issues |-> (IF short THEN <<"Insufficient records">> ELSE <<>>)
                    \o (IF missing_columns # {}
                        THEN <<"Missing required columns">> ELSE <<>>)
                    \o (IF date_raises THEN <<"Date validation error">> ELSE <<>>)
                    \o (IF price_raises THEN <<"Validation error">> ELSE <<>>),
         warnings |-> null_warnings \o price_warnings \o quantity_warnings
                      \o date_warnings]

\* Mutant: the minimum record count is not checked.
validate_without_minimum(d) == Validation(d, FALSE)

\* validate_data_quality: is_valid starts True and is cleared by the minimum
\* record count, by the required columns and by the outer exception handler;
\* every other finding is appended to warnings, and a failure of the date
\* parsing is appended to issues.
validate_data_quality(d) == Validation(d, Len(d.rows) < min_records)

\* ------------------------------------------- validate_data_quality, alone
\* Rows with the findings the validator looks for: a zero quantity, a date
\* pd.to_datetime cannot parse, a date before the window, a price above the
\* ceiling, a null customer, a price held as text.
RecZeroQty == [RecA EXCEPT !.InvoiceNo = "536367", !.Quantity = 0]
RecBadDate == [RecA EXCEPT !.InvoiceNo = "536368", !.InvoiceDate = "31/31/2010"]
RecOldDate == [RecA EXCEPT !.InvoiceNo = "536369", !.InvoiceDate = "2008-06-30 10:00"]
RecHighPrice == [RecA EXCEPT !.InvoiceNo = "536370", !.UnitPrice = "10000.01"]
RecNoCustomer == [RecA EXCEPT !.InvoiceNo = "536371", !.CustomerID = Null]
RecTextPrice == [RecA EXCEPT !.InvoiceNo = "536372", !.UnitPrice = "n/a"]

ProbeRecords == {RecA, RecB, RecZeroQty, RecBadDate, RecOldDate, RecHighPrice,
                 RecNoCustomer, RecTextPrice}

\* Largest frame validate_data_quality is called on.
MaxProbeRows == 3

\* str.lower() of a column name.
Lower(name) ==
    CASE name = "InvoiceNo" -> "invoiceno"
      [] name = "StockCode" -> "stockcode"
      [] name = "Description" -> "description"
      [] name = "Quantity" -> "quantity"
      [] name = "InvoiceDate" -> "invoicedate"
      [] name = "UnitPrice" -> "unitprice"
      [] name = "CustomerID" -> "customerid"
      [] name = "Country" -> "country"
      [] OTHER -> name

\* The full header written in lower case.
LowerColumns == {Lower(col) : col \in AllColumns}

\* Headers: the full one, one without Country, one without CustomerID, the
\* full one in lower case.
ProbeColumnSets == {AllColumns, AllColumns \ {"Country"},
                    AllColumns \ {"CustomerID"}, LowerColumns}

ProbeFrames ==
    [columns : ProbeColumnSets,
     rows : UNION {[1..n -> ProbeRecords] : n \in 0..MaxProbeRows}]

\* pipeline.validate_data_quality(df), called on a frame of its own.
ProbeValidate ==
    /\ ~probe.called
    /\ \E d \in ProbeFrames :
         probe' = [called |-> TRUE, df |-> d, result |-> validate_data_quality(d)]
    /\ UNCHANGED <<retail_raw, load_metadata, uuids, pc, file_path, load_id, df,
                   results, error_message, loader, log, exit_code, peer, bronze>>

\* -------------------------------------------- generate_record_hash, alone
\* A row that differs from RecA in the columns the hash leaves out.
RecOtherText == [RecA EXCEPT !.Description = "LANTERN", !.Country = "France"]

\* The row dictionaries generate_record_hash is called on: rows of two files,
\* stamped by two runs at two times.
HashDicts ==
    {RowDict(rec, source_file, lid, now) :
        rec \in {RecA, RecB, RecLong, RecOtherText},
        source_file \in {"retail.parquet", "retail.csv"},
        lid \in {"load-1", "load-2"},
        now \in {"at load-1", "at load-2"}}

\* pipeline.generate_record_hash(record), called twice.
ProbeHash ==
    /\ ~probe.called
    /\ \E r1, r2 \in HashDicts :
         probe' = [called |-> TRUE,
                   calls |-> <<[record |-> r1, hash |-> generate_record_hash(r1)],
                               [record |-> r2, hash |-> generate_record_hash(r2)]>>]
    /\ UNCHANGED <<retail_raw, load_metadata, uuids, pc, file_path, load_id, df,
                   results, error_message, loader, log, exit_code, peer, bronze>>

\* ------------------------------------------------------ load metadata rows
\* str(uuid4()): a load id no earlier call returned.
Uuid4(n) == "load-" \o ToString(n + 1)

\* INSERT INTO bronze.load_metadata ... VALUES (..., 'STARTED')
StartedRow(path) ==
    [file_path |-> path, load_status |-> "STARTED", load_end_time |-> Null,
     records_loaded |-> NullInt, records_failed |-> NullInt, error_message |-> Null]

\* Mutant: the UPDATE leaves error_message as it was.
UpdatedRowKeepingMessage(row, u) ==
    [row EXCEPT !.load_end_time = "now", !.load_status = u.status,
                !.records_loaded = u.records_loaded,
                !.records_failed = u.records_failed]

\* UPDATE bronze.load_metadata SET ... WHERE load_id = :load_id
UpdatedRow(row, u) ==
    [row EXCEPT !.load_end_time = "now", !.load_status = u.status,
                !.records_loaded = u.records_loaded,
                !.records_failed = u.records_failed,
                !.error_message = u.error_message]

\* The parameters of one call of update_load_metadata.
UpdateCall(lid, status, loaded, failed, message) ==
    [load_id |-> lid, status |-> status, records_loaded |-> loaded,
     records_failed |-> failed, error_message |-> message]

\* update_load_metadata: the UPDATE is committed, or an SQLAlchemyError is
\* logged and swallowed.  committed says which; a status the CHECK constraint
\* rejects is never committed.
update_load_metadata(u, committed) ==
    /\ committed => LoadStatusOk(u.status)
    /\ load_metadata' =
         IF committed /\ u.load_id \in DOMAIN load_metadata
         THEN [load_metadata EXCEPT ![u.load_id] = UpdatedRow(@, u)]
         ELSE load_metadata
    /\ log' = [log EXCEPT !.updates = Append(@, [call |-> u, committed |-> committed]),
                          !.faulted = @ \/ ~committed]

\* ----------------------------------------------------------------- steps
EmptyLog ==
    [updates |-> <<>>, faulted |-> FALSE, store_before |-> 0, file_read |-> FALSE,
     hash_read |-> "none", existing |-> {}, bulk_writes |-> 0, row_writes |-> 0,
     rows_written |-> 0, load_ran |-> FALSE, batches |-> <<>>,
     chunk |-> [retried |-> FALSE, faulted |-> FALSE, loaded |-> 0, failed |-> 0,
                ok |-> <<>>, ko |-> 0]]

\* validate_data_quality has not been called on its own.
NoProbe == [called |-> FALSE]

\* BronzeIngestionPipeline has not been run: bronze.online_retail_raw and
\* bronze.ingestion_log are empty.
IdleBronze ==
    [pc |-> "idle", online_retail_raw |-> <<>>, ingestion_log |-> <<>>, runs |-> 0,
     batch_id |-> Null, df |-> <<>>, i |-> 0, total_inserted |-> 0,
     store_before |-> 0, attempted |-> 0, failed_chunk |-> 0, updates |-> <<>>,
     summary |-> [status |-> Null, records_extracted |-> 0, records_loaded |-> 0]]

\* No second invocation is running.
IdlePeer ==
    [pc |-> "idle", load_id |-> Null, df |-> Null, existing |-> {}, raced |-> FALSE,
     df_to_insert |-> <<>>, batch_num |-> 0, row_num |-> 0,
     records_loaded |-> 0, records_failed |-> 0]

Init ==
    /\ retail_raw = <<>>
    /\ load_metadata = <<>>
    /\ uuids = 0
    /\ pc = "idle"
    /\ file_path = Null
    /\ load_id = Null
    /\ df = NoFrame
    /\ results = Null
    /\ error_message = Null
    /\ df_to_insert = <<>>
    /\ skipped = 0
    /\ batch_num = 0
    /\ row_num = 0
    /\ records_loaded = 0
    /\ records_failed = 0
    /\ log = EmptyLog
    /\ exit_code = Null
    /\ peer = IdlePeer
    /\ probe = NoProbe
    /\ bronze = IdleBronze

\* ingest_retail_data(file_path) is called: results is initialised.
StartRun ==
    /\ pc \in {"idle", "done", "exited"}
    /\ uuids < MaxRuns
    /\ \E path \in Paths :
         /\ file_path' = path
         /\ results' = [status |-> "STARTED", load_id |-> Null, file_path |-> path,
                        end_time |-> Null, records_processed |-> 0,
                        records_loaded |-> 0, records_failed |-> 0,
                        validation_results |-> NotValidated, error_message |-> Null]
    /\ load_id' = Null
    /\ df' = NoFrame
    /\ error_message' = Null
    /\ df_to_insert' = <<>>
    /\ skipped' = 0
    /\ batch_num' = 0
    /\ row_num' = 0
    /\ records_loaded' = 0
    /\ records_failed' = 0
    /\ log' = [EmptyLog EXCEPT !.store_before = Len(retail_raw)]
    /\ pc' = "create"
    /\ exit_code' = Null
    /\ UNCHANGED <<retail_raw, load_metadata, uuids, peer, probe, bronze>>

\* Mutant: the identifier is returned but the row of the load attempt is not
\* there yet.
CreateLoadMetadataNoRow ==
    /\ pc = "create"
    /\ uuids' = uuids + 1
    /\ load_id' = Uuid4(uuids)
    /\ results' = [results EXCEPT !.load_id = Uuid4(uuids)]
    /\ pc' = "read"
    /\ UNCHANGED <<retail_raw, load_metadata, file_path, df, error_message, loader, log>>
    /\ UNCHANGED outside

\* Step 1, the INSERT commits: the load attempt exists with status STARTED.
CreateLoadMetadata ==
    /\ pc = "create"
    /\ load_metadata' = load_metadata @@ (Uuid4(uuids) :> StartedRow(file_path))
    /\ uuids' = uuids + 1
    /\ load_id' = Uuid4(uuids)
    /\ results' = [results EXCEPT !.load_id = Uuid4(uuids)]
    /\ pc' = "read"
    /\ UNCHANGED <<retail_raw, file_path, df, error_message, loader, log>>
    /\ UNCHANGED outside

\* Mutant: the identifier is handed back although the INSERT raised.
CreateLoadMetadataFailsWithId ==
    /\ pc = "create"
    /\ uuids' = uuids + 1
    /\ load_id' = Uuid4(uuids)
    /\ error_message' = "Failed to create load metadata"
    /\ log' = [log EXCEPT !.faulted = TRUE]
    /\ pc' = "except"
    /\ UNCHANGED <<retail_raw, load_metadata, file_path, df, results, loader>>
    /\ UNCHANGED outside

\* Step 1, the INSERT raises: DataIngestionError, load_id stays None.
CreateLoadMetadataFails ==
    /\ pc = "create"
    /\ uuids' = uuids + 1
    /\ error_message' = "Failed to create load metadata"
    /\ log' = [log EXCEPT !.faulted = TRUE]
    /\ pc' = "except"
    /\ UNCHANGED <<retail_raw, load_metadata, file_path, load_id, df, results, loader>>
    /\ UNCHANGED outside

\* Step 2: the file is read by the reader its suffix selects.
ReadFile ==
    /\ pc = "read"
    /\ Suffix(file_path) \in {".parquet", ".csv"}
    /\ pc' = "validate"
    /\ \E d \in DataFrames :
         /\ df' = d
         /\ results' = [results EXCEPT !.records_processed = Len(d.rows)]
    /\ log' = [log EXCEPT !.file_read = TRUE]
    /\ UNCHANGED <<retail_raw, load_metadata, uuids, file_path, load_id,
                   error_message, loader>>
    /\ UNCHANGED outside

\* Files whose records all describe the same invoice line, some with another
\* description and country.
VariantFrames ==
    [columns : {AllColumns},
     rows : UNION {[1..n -> {RecA, RecOtherText}] : n \in 1..MaxRows}]

\* Step 2 on such a file.
ReadVariantFile ==
    /\ pc = "read"
    /\ Suffix(file_path) \in {".parquet", ".csv"}
    /\ pc' = "validate"
    /\ \E d \in VariantFrames :
         /\ df' = d
         /\ results' = [results EXCEPT !.records_processed = Len(d.rows)]
    /\ log' = [log EXCEPT !.file_read = TRUE]
    /\ UNCHANGED <<retail_raw, load_metadata, uuids, file_path, load_id,
                   error_message, loader>>
    /\ UNCHANGED outside

\* Step 2: unsupported suffix, or the reader raises on an unreadable file.
ReadFileFails ==
    /\ pc = "read"
    /\ error_message' = IF Suffix(file_path) \in {".parquet", ".csv"}
                        THEN "read error"
                        ELSE "Unsupported file format: " \o file_path
    /\ pc' = "except"
    /\ UNCHANGED <<retail_raw, load_metadata, uuids, file_path, load_id, df,
                   results, loader, log>>
    /\ UNCHANGED outside

\* Mutant: the result of the validation is recorded but never raised.
ValidateWithoutGate ==
    /\ pc = "validate"
    /\ results' = [results EXCEPT !.validation_results = validate_data_quality(df)]
    /\ pc' = "load"
    /\ UNCHANGED <<retail_raw, load_metadata, uuids, file_path, load_id, df,
                   error_message, loader, log>>
    /\ UNCHANGED outside

\* Step 3: validation; an invalid file raises DataIngestionError.
Validate ==
    /\ pc = "validate"
    /\ LET v == validate_data_quality(df) IN
         /\ IF v.is_valid
            THEN pc' = "load" /\ UNCHANGED error_message
            ELSE /\ pc' = "except"
                 /\ error_message' = "Data validation failed: " \o Join(v.issues)
         /\ results' = [results EXCEPT !.validation_results = v]
    /\ UNCHANGED <<retail_raw, load_metadata, uuids, file_path, load_id, df, loader, log>>
    /\ UNCHANGED outside

\* ------------------------------------------------------ load_data_to_bronze
\* df_copy: every row renamed, stamped with source_file and load_id, hashed.
DfCopy(d, source_file, lid) ==
    [i \in 1..Len(d.rows) |-> BronzeRow(d.rows[i], source_file, lid)]

\* total_batches = (len(df_to_insert) + batch_size - 1) // batch_size
TotalBatches(to_insert) == (Len(to_insert) + batch_size - 1) \div batch_size

Min(a, b) == IF a < b THEN a ELSE b

\* batch_df = df_to_insert.iloc[start_idx:end_idx]
BatchDf(to_insert, k) ==
    SubSeq(to_insert, k * batch_size + 1, Min((k + 1) * batch_size, Len(to_insert)))

\* records_loaded += len(batch_df)
LoadedAfterBatch(loaded, batch) == loaded + Len(batch)
\* records_failed += len(batch_df)
FailedAfterBatchError(failed, batch) == failed + Len(batch)
\* records_loaded += 1
LoadedAfterRow(loaded) == loaded + 1
\* Mutant: a row written in the retry is not taken off records_failed.
FailedAfterRowKept(failed) == failed
\* Mutant: a row written in the retry is taken off records_failed twice.
FailedAfterRowTwice(failed) == failed - 2
\* records_failed -= 1
FailedAfterRow(failed) == failed - 1
\* records_failed = len(df) - records_loaded
FailedAfterCriticalError(d, loaded) == Len(d.rows) - loaded

\* Lines 290-329, the SELECT of the existing hashes succeeds: the rows whose
\* hash the table already holds are dropped.
LoadPrepare ==
    /\ pc = "load"
    /\ LET df_copy == DfCopy(df, file_path, load_id)
           existing_hashes == ExistingHashes(retail_raw)
       IN  /\ df_to_insert' = FilterDuplicates(df_copy, existing_hashes)
           /\ skipped' = Len(df_copy) - Len(df_to_insert')
           /\ log' = [log EXCEPT !.hash_read = "ok", !.existing = existing_hashes]
    /\ records_loaded' = 0
    /\ records_failed' = 0
    /\ batch_num' = 0
    /\ row_num' = 0
    /\ pc' = "batch"
    /\ UNCHANGED <<retail_raw, load_metadata, uuids, file_path, load_id, df,
                   results, error_message>>
    /\ UNCHANGED outside

\* Lines 290-323 and 384-389, the SELECT raises: the critical-error handler
\* counts every row not loaded as failed and the loader returns.
LoadPrepareFails ==
    /\ pc = "load"
    /\ records_loaded' = 0
    /\ records_failed' = FailedAfterCriticalError(df, 0)
    /\ results' = [results EXCEPT !.records_loaded = records_loaded',
                                  !.records_failed = records_failed']
    /\ log' = [log EXCEPT !.hash_read = "failed", !.faulted = TRUE]
    /\ pc' = "finalize"
    /\ UNCHANGED <<retail_raw, load_metadata, uuids, file_path, load_id, df,
                   error_message, df_to_insert, skipped, batch_num, row_num>>
    /\ UNCHANGED outside

\* Mutant: to_sql is called with if_exists='replace': the table is rebuilt
\* from the batch.
BulkInsertReplacing ==
    /\ pc = "batch"
    /\ batch_num < TotalBatches(df_to_insert)
    /\ LET batch_df == BatchDf(df_to_insert, batch_num) IN
         /\ InsertAccepted(<<>>, batch_df)
         /\ retail_raw' = batch_df
         /\ records_loaded' = LoadedAfterBatch(records_loaded, batch_df)
         /\ log' = [log EXCEPT !.bulk_writes = @ + 1,
                               !.batches = Append(@, batch_num),
                               !.rows_written = @ + Len(batch_df),
                               !.chunk = [retried |-> FALSE, faulted |-> FALSE,
                                          loaded |-> records_loaded,
                                          failed |-> records_failed,
                                          ok |-> <<>>, ko |-> 0]]
    /\ batch_num' = batch_num + 1
    /\ UNCHANGED <<load_metadata, uuids, pc, file_path, load_id, df, results,
                   error_message, df_to_insert, skipped, row_num, records_failed>>
    /\ UNCHANGED outside

\* Lines 334-355: the multi-row INSERT of the batch commits.
BulkInsert ==
    /\ pc = "batch"
    /\ batch_num < TotalBatches(df_to_insert)
    /\ LET batch_df == BatchDf(df_to_insert, batch_num) IN
         /\ InsertAccepted(retail_raw, batch_df)
         /\ retail_raw' = retail_raw \o batch_df
         /\ records_loaded' = LoadedAfterBatch(records_loaded, batch_df)
         /\ log' = [log EXCEPT !.bulk_writes = @ + 1,
                               !.batches = Append(@, batch_num),
                               !.rows_written = @ + Len(batch_df),
                               !.chunk = [retried |-> FALSE, faulted |-> FALSE,
                                          loaded |-> records_loaded,
                                          failed |-> records_failed,
                                          ok |-> <<>>, ko |-> 0]]
    /\ batch_num' = batch_num + 1
    /\ UNCHANGED <<load_metadata, uuids, pc, file_path, load_id, df, results,
                   error_message, df_to_insert, skipped, row_num, records_failed>>
    /\ UNCHANGED outside

\* Mutant: the multi-row INSERT raises after its first row was committed.
BulkInsertFailsHalfCommitted ==
    /\ pc = "batch"
    /\ batch_num < TotalBatches(df_to_insert)
    /\ LET batch_df == BatchDf(df_to_insert, batch_num)
           fault == InsertAccepted(retail_raw, batch_df)
       IN  /\ records_failed' = FailedAfterBatchError(records_failed, batch_df)
           /\ retail_raw' = IF InsertAccepted(retail_raw, <<batch_df[1]>>)
                            THEN Append(retail_raw, batch_df[1])
                            ELSE retail_raw
           /\ log' = [log EXCEPT !.bulk_writes = @ + 1,
                               !.batches = Append(@, batch_num),
                                 !.faulted = @ \/ fault,
                                 !.chunk = [retried |-> TRUE, faulted |-> fault,
                                            loaded |-> records_loaded,
                                            failed |-> records_failed,
                                            ok |-> <<>>, ko |-> 0]]
    /\ row_num' = 0
    /\ pc' = "rows"
    /\ UNCHANGED <<load_metadata, uuids, file_path, load_id, df,
                   results, error_message, df_to_insert, skipped, batch_num,
                   records_loaded>>
    /\ UNCHANGED outside

\* Lines 357-362: the multi-row INSERT raises (a constraint of the table, or
\* the database is unreachable) and is rolled back; the rows are retried.
BulkInsertFails ==
    /\ pc = "batch"
    /\ batch_num < TotalBatches(df_to_insert)
    /\ LET batch_df == BatchDf(df_to_insert, batch_num)
           fault == InsertAccepted(retail_raw, batch_df)
       IN  /\ records_failed' = FailedAfterBatchError(records_failed, batch_df)
           /\ log' = [log EXCEPT !.bulk_writes = @ + 1,
                               !.batches = Append(@, batch_num),
                                 !.faulted = @ \/ fault,
                                 !.chunk = [retried |-> TRUE, faulted |-> fault,
                                            loaded |-> records_loaded,
                                            failed |-> records_failed,
                                            ok |-> <<>>, ko |-> 0]]
    /\ row_num' = 0
    /\ pc' = "rows"
    /\ UNCHANGED <<retail_raw, load_metadata, uuids, file_path, load_id, df,
                   results, error_message, df_to_insert, skipped, batch_num,
                   records_loaded>>
    /\ UNCHANGED outside

\* Mutant: after the retry of a failed batch the loop over the batches ends.
NextRowFailFast ==
    IF row_num + 1 < Len(BatchDf(df_to_insert, batch_num))
    THEN /\ row_num' = row_num + 1
         /\ UNCHANGED <<pc, batch_num>>
    ELSE /\ row_num' = 0
         /\ batch_num' = TotalBatches(df_to_insert)
         /\ pc' = "batch"

\* Mutant: the retry stays on the row it has just attempted.
NextRowAgain ==
    /\ row_num' = row_num
    /\ UNCHANGED <<pc, batch_num>>

\* After row row_num of the batch: the next row, or the next batch.
NextRow ==
    IF row_num + 1 < Len(BatchDf(df_to_insert, batch_num))
    THEN /\ row_num' = row_num + 1
         /\ UNCHANGED <<pc, batch_num>>
    ELSE /\ row_num' = 0
         /\ batch_num' = batch_num + 1
         /\ pc' = "batch"

\* Lines 362-373: the INSERT of one row of the failed batch commits.
RowInsert ==
    /\ pc = "rows"
    /\ LET row == BatchDf(df_to_insert, batch_num)[row_num + 1] IN
         /\ InsertAccepted(retail_raw, <<row>>)
         /\ retail_raw' = Append(retail_raw, row)
         /\ log' = [log EXCEPT !.row_writes = @ + 1, !.rows_written = @ + 1,
                               !.chunk.ok = Append(@, row)]
    /\ records_loaded' = LoadedAfterRow(records_loaded)
    /\ records_failed' = FailedAfterRow(records_failed)
    /\ NextRow
    /\ UNCHANGED <<load_metadata, uuids, file_path, load_id, df, results,
                   error_message, df_to_insert, skipped>>
    /\ UNCHANGED outside

\* Lines 374-375: the INSERT of one row raises; the row stays counted failed.
RowInsertFails ==
    /\ pc = "rows"
    /\ LET row == BatchDf(df_to_insert, batch_num)[row_num + 1]
           fault == InsertAccepted(retail_raw, <<row>>)
       IN  log' = [log EXCEPT !.row_writes = @ + 1, !.faulted = @ \/ fault,
                              !.chunk.faulted = @ \/ fault, !.chunk.ko = @ + 1]
    /\ NextRow
    /\ UNCHANGED <<retail_raw, load_metadata, uuids, file_path, load_id, df,
                   results, error_message, df_to_insert, skipped,
                   records_loaded, records_failed>>
    /\ UNCHANGED outside

\* Lines 377-389 and 446-448: every batch was attempted; the loader returns
\* its two counters and the summary takes them.
LoadReturn ==
    /\ pc = "batch"
    /\ batch_num >= TotalBatches(df_to_insert)
    /\ results' = [results EXCEPT !.records_loaded = records_loaded,
                                  !.records_failed = records_failed]
    /\ log' = [log EXCEPT !.load_ran = TRUE]
    /\ pc' = "finalize"
    /\ UNCHANGED <<retail_raw, load_metadata, uuids, file_path, load_id, df,
                   error_message, loader>>
    /\ UNCHANGED outside

\* ------------------------------------------------------------ finalisation
\* Step 5: the status of the summary.
SummaryStatus(failed) == IF failed = 0 THEN "COMPLETED" ELSE "COMPLETED_WITH_ERRORS"
\* Mutant: the update is handed the status of the summary.
PersistedStatusOfSummary(failed) ==
    IF failed = 0 THEN "COMPLETED" ELSE "COMPLETED_WITH_ERRORS"
\* Step 5: the status handed to update_load_metadata.
PersistedStatus(failed) == "COMPLETED"
\* Step 5: the error_message handed to update_load_metadata.
PersistedMessage(failed) ==
    IF failed = 0 THEN Null ELSE ToString(failed) \o " records failed to load"

\* Lines 450-459: the run ends in the try block.
Finalize ==
    /\ pc = "finalize"
    /\ \E committed \in BOOLEAN :
         update_load_metadata(
             UpdateCall(load_id, PersistedStatus(results.records_failed),
                        results.records_loaded, results.records_failed,
                        PersistedMessage(results.records_failed)),
             committed)
    /\ results' = [results EXCEPT !.status = SummaryStatus(results.records_failed),
                                  !.end_time = "now"]
    /\ pc' = "done"
    /\ UNCHANGED <<retail_raw, uuids, file_path, load_id, df, error_message, loader>>
    /\ UNCHANGED outside

\* Lines 470-485: the handler of every exception of the try block.
ExceptHandler ==
    /\ pc = "except"
    /\ results' = [results EXCEPT !.status = "FAILED",
                                  !.error_message = error_message,
                                  !.end_time = "now"]
    /\ IF load_id # Null
       THEN \E committed \in BOOLEAN :
              update_load_metadata(
                  UpdateCall(load_id, "FAILED", results.records_loaded,
                             results.records_failed, error_message),
                  committed)
       ELSE UNCHANGED <<load_metadata, log>>
    /\ pc' = "done"
    /\ UNCHANGED <<retail_raw, uuids, file_path, load_id, df, error_message, loader>>
    /\ UNCHANGED outside

\* main(), lines 504-521: the summary is printed and main returns, whatever
\* the status: the process ends with exit status 0.  What the process held in
\* memory is gone; the summary it printed (results) is what remains of it.
MainExit ==
    /\ pc = "done"
    /\ exit_code' = "0"
    /\ pc' = "exited"
    /\ df' = NoFrame
    /\ error_message' = Null
    /\ df_to_insert' = <<>>
    /\ skipped' = 0
    /\ batch_num' = 0
    /\ row_num' = 0
    /\ records_loaded' = 0
    /\ records_failed' = 0
    /\ log' = EmptyLog
    /\ UNCHANGED <<retail_raw, load_metadata, uuids, file_path, load_id,
                   results, peer, probe, bronze>>

\* ------------------------------------------------- a second invocation
\* ingest_retail_data called by a second process on the same file (a retry)
\* while this invocation is in its load stage, followed on the path on which
\* the database never fails: its load attempt is created, the file is read
\* and found valid, and it enters load_data_to_bronze.
PeerStart ==
    /\ peer.pc = "idle"
    /\ pc \in {"batch", "rows"}
    /\ log.hash_read = "ok"
    /\ uuids < MaxRuns
    /\ load_metadata' = load_metadata @@ (Uuid4(uuids) :> StartedRow(file_path))
    /\ uuids' = uuids + 1
    /\ peer' = [IdlePeer EXCEPT !.pc = "load", !.load_id = Uuid4(uuids), !.df = df]
    /\ UNCHANGED <<retail_raw, pc, file_path, load_id, df, results, error_message,
                   loader, log, exit_code, probe, bronze>>

\* Lines 290-329 of the second invocation: its one read of the existing
\* hashes.  raced: the first invocation has read its own and written nothing.
PeerLoadPrepare ==
    /\ peer.pc = "load"
    /\ LET df_copy == DfCopy(peer.df, file_path, peer.load_id)
           existing_hashes == ExistingHashes(retail_raw)
       IN  peer' = [peer EXCEPT !.pc = "batch",
                                !.existing = existing_hashes,
                                !.raced = (log.hash_read = "ok" /\ log.rows_written = 0),
                                !.df_to_insert = FilterDuplicates(df_copy, existing_hashes)]
    /\ UNCHANGED <<retail_raw, load_metadata, uuids, pc, file_path, load_id, df,
                   results, error_message, loader, log, exit_code, probe, bronze>>

\* Lines 334-362 of the second invocation: the multi-row INSERT of a batch
\* commits, or a constraint of the table rejects it and its rows are retried.
PeerBulkInsert ==
    /\ peer.pc = "batch"
    /\ peer.batch_num < TotalBatches(peer.df_to_insert)
    /\ LET batch_df == BatchDf(peer.df_to_insert, peer.batch_num) IN
         IF InsertAccepted(retail_raw, batch_df)
         THEN /\ retail_raw' = retail_raw \o batch_df
              /\ peer' = [peer EXCEPT
                            !.records_loaded = LoadedAfterBatch(@, batch_df),
                            !.batch_num = @ + 1]
         ELSE /\ peer' = [peer EXCEPT
                            !.records_failed = FailedAfterBatchError(@, batch_df),
                            !.row_num = 0, !.pc = "rows"]
              /\ UNCHANGED retail_raw
    /\ UNCHANGED <<load_metadata, uuids, pc, file_path, load_id, df, results,
                   error_message, loader, log, exit_code, probe, bronze>>

\* Lines 362-375 of the second invocation: the INSERT of one row of the
\* failed batch commits or is rejected; then the next row, or the next batch.
PeerRowInsert ==
    /\ peer.pc = "rows"
    /\ LET batch_df == BatchDf(peer.df_to_insert, peer.batch_num)
           row == batch_df[peer.row_num + 1]
           accepted == InsertAccepted(retail_raw, <<row>>)
           last == peer.row_num + 1 >= Len(batch_df)
       IN  /\ retail_raw' = IF accepted THEN Append(retail_raw, row) ELSE retail_raw
           /\ peer' = [peer EXCEPT
                         !.records_loaded = IF accepted THEN LoadedAfterRow(@) ELSE @,
                         !.records_failed = IF accepted THEN FailedAfterRow(@) ELSE @,
                         !.row_num = IF last THEN 0 ELSE @ + 1,
                         !.batch_num = IF last THEN @ + 1 ELSE @,
                         !.pc = IF last THEN "batch" ELSE "rows"]
    /\ UNCHANGED <<load_metadata, uuids, pc, file_path, load_id, df, results,
                   error_message, loader, log, exit_code, probe, bronze>>

\* Lines 377-389 and 446-459 of the second invocation: its loader returns
\* and its load attempt is updated.
PeerLoadReturn ==
    /\ peer.pc = "batch"
    /\ peer.batch_num >= TotalBatches(peer.df_to_insert)
    /\ load_metadata' =
         [load_metadata EXCEPT ![peer.load_id] =
            UpdatedRow(@, UpdateCall(peer.load_id,
                                     PersistedStatus(peer.records_failed),
                                     peer.records_loaded, peer.records_failed,
                                     PersistedMessage(peer.records_failed)))]
    /\ peer' = [peer EXCEPT !.pc = "done"]
    /\ UNCHANGED <<retail_raw, uuids, pc, file_path, load_id, df, results,
                   error_message, loader, log, exit_code, probe, bronze>>

Next ==
    \/ StartRun
    \/ CreateLoadMetadata
    \/ CreateLoadMetadataFails
    \/ ReadFile
    \/ ReadFileFails
    \/ Validate
    \/ LoadPrepare
    \/ LoadPrepareFails
    \/ BulkInsert
    \/ BulkInsertFails
    \/ RowInsert
    \/ RowInsertFails
    \/ LoadReturn
    \/ Finalize
    \/ ExceptHandler

Spec == Init /\ [][Next]_vars

\* The invocations started by main(), each in a process of its own.
NextMain ==
    \/ Next
    \/ MainExit

SpecMain == Init /\ [][NextMain]_vars

\* Two invocations side by side.
NextConc ==
    \/ Next
    \/ PeerStart
    \/ PeerLoadPrepare
    \/ PeerBulkInsert
    \/ PeerRowInsert
    \/ PeerLoadReturn

SpecConc == Init /\ [][NextConc]_vars

\* validate_data_quality as a function of the frame it is given.
\* One step of a running invocation: ingest_retail_data is sequential code, and
\* a statement that can be executed is executed.
RunStep ==
    \/ CreateLoadMetadata \/ CreateLoadMetadataFails
    \/ ReadFile \/ ReadFileFails
    \/ Validate
    \/ LoadPrepare \/ LoadPrepareFails
    \/ BulkInsert \/ BulkInsertFails
    \/ RowInsert \/ RowInsertFails
    \/ LoadReturn
    \/ Finalize
    \/ ExceptHandler

\* Where the interpreter stands; every step of an invocation changes it.
control == <<pc, batch_num, row_num>>

\* The invocations with the progress of the interpreter: nothing obliges the
\* caller to start an invocation, a started one keeps executing.
SpecLive == Init /\ [][Next]_vars /\ WF_control(RunStep)

\* The invocations on files of records that differ in description and country
\* only.
NextDedup ==
    \/ StartRun
    \/ CreateLoadMetadata
    \/ CreateLoadMetadataFails
    \/ ReadVariantFile
    \/ ReadFileFails
    \/ Validate
    \/ LoadPrepare
    \/ LoadPrepareFails
    \/ BulkInsert
    \/ BulkInsertFails
    \/ RowInsert
    \/ RowInsertFails
    \/ LoadReturn
    \/ Finalize
    \/ ExceptHandler

SpecDedup == Init /\ [][NextDedup]_vars

NextValidate == ProbeValidate

SpecValidate == Init /\ [][NextValidate]_vars

\* generate_record_hash as a function of the row dictionary it is given.
NextHash == ProbeHash

SpecHash == Init /\ [][NextHash]_vars

\* ------------------------------------------------ BronzeIngestionPipeline
\* chunksize of run_pipeline and load_to_bronze: 10000 in the source, scaled.
chunksize == 1
\* Longest file extract_data returns.
MaxBronzeRows == 2

BronzeRecords == {RecA, RecB}

\* extract_data: the records of the file, in order.
BronzeFrames == UNION {[1..n -> BronzeRecords] : n \in 0..MaxBronzeRows}

\* _generate_batch_id of the n+1st pipeline object.
BatchId(n) == "BATCH_" \o ToString(n + 1)

\* transform_for_bronze: the renamed source columns, each cast to text.
AsText(rec) == [Canonical(rec) EXCEPT !.quantity = ToString(@)]

\* _compute_record_hash: the digest of the eight joined source columns, kept
\* as the sequence of its parts.
compute_record_hash(record) ==
    <<record.invoice, record.stock_code, record.description, record.quantity,
      record.invoice_date, record.unit_price, record.customer_id, record.country>>

\* transform_for_bronze: a row of bronze_df.
BronzeDfRow(rec, batch_id) ==
    [data |-> AsText(rec), load_batch_id |-> batch_id,
     record_hash |-> compute_record_hash(AsText(rec))]

BronzeDf(frame, batch_id) == [k \in 1..Len(frame) |-> BronzeDfRow(frame[k], batch_id)]

\* What the steps of BronzeIngestionPipeline leave alone.
retail == <<retail_raw, load_metadata, uuids, pc, file_path, load_id, df, results,
            error_message, loader, log, exit_code, peer, probe>>

\* _log_ingestion_start: the row inserted into bronze.ingestion_log.
RunningEntry(batch_id, records_extracted) ==
    [batch_id |-> batch_id, status |-> "RUNNING",
     records_processed |-> records_extracted, records_inserted |-> NullInt,
     error_message |-> Null]

\* UPDATE bronze.ingestion_log SET status = ..., ... WHERE batch_id = :batch_id
UpdatedLog(table, batch_id, status, inserted, message) ==
    [k \in 1..Len(table) |->
        IF table[k].batch_id = batch_id
        THEN [table[k] EXCEPT !.status = status, !.records_inserted = inserted,
                              !.error_message = message]
        ELSE table[k]]

\* Mutant: rows repeating a row of an earlier chunk are dropped from the chunk.
ChunkWithoutRepeats(frame, i) ==
    SelectSeq(SubSeq(frame, i + 1, Min(i + chunksize, Len(frame))),
              LAMBDA r : \A j \in 1..i : frame[j].data # r.data)

\* chunk = df.iloc[i:i + chunksize]
Chunk(frame, i) == SubSeq(frame, i + 1, Min(i + chunksize, Len(frame)))

\* main() builds a pipeline and calls run_pipeline: extract_data and
\* transform_for_bronze return bronze_df.
BronzeRun ==
    /\ bronze.pc \in {"idle", "returned", "raised"}
    /\ bronze.runs < MaxRuns
    /\ \E frame \in BronzeFrames :
         bronze' = [bronze EXCEPT
                      !.pc = "start", !.runs = @ + 1,
                      !.batch_id = BatchId(bronze.runs),
                      !.df = BronzeDf(frame, BatchId(bronze.runs)),
                      !.i = 0, !.total_inserted = 0,
                      !.store_before = Len(bronze.online_retail_raw),
                      !.attempted = 0, !.failed_chunk = 0, !.updates = <<>>,
                      !.summary = IdleBronze.summary]
    /\ UNCHANGED retail

\* extract_data or transform_for_bronze raises: run_pipeline re-raises.
BronzeExtractFails ==
    /\ bronze.pc \in {"idle", "returned", "raised"}
    /\ bronze.runs < MaxRuns
    /\ bronze' = [bronze EXCEPT
                    !.pc = "raised", !.runs = @ + 1,
                    !.batch_id = BatchId(bronze.runs), !.df = <<>>,
                    !.i = 0, !.total_inserted = 0,
                    !.store_before = Len(bronze.online_retail_raw),
                    !.attempted = 0, !.failed_chunk = 0, !.updates = <<>>,
                    !.summary = IdleBronze.summary]
    /\ UNCHANGED retail

\* load_to_bronze, line 223: _log_ingestion_start inserts the RUNNING entry.
BronzeLogStart ==
    /\ bronze.pc = "start"
    /\ bronze' = [bronze EXCEPT
                    !.pc = "chunks",
                    !.ingestion_log =
                        Append(@, RunningEntry(bronze.batch_id, Len(bronze.df)))]
    /\ UNCHANGED retail

\* Line 223, the INSERT raises: outside the try block, so nothing is logged.
BronzeLogStartFails ==
    /\ bronze.pc = "start"
    /\ bronze' = [bronze EXCEPT !.pc = "raised"]
    /\ UNCHANGED retail

\* Lines 228-238: bulk_insert_dataframe commits the chunk in its transaction.
BronzeChunk ==
    /\ bronze.pc = "chunks"
    /\ bronze.i < Len(bronze.df)
    /\ LET chunk == Chunk(bronze.df, bronze.i) IN
         bronze' = [bronze EXCEPT
                      !.online_retail_raw = @ \o chunk,
                      !.total_inserted = @ + Len(chunk),
                      !.i = @ + chunksize,
                      !.attempted = @ + 1]
    /\ UNCHANGED retail

\* Lines 228-238 and 244: bulk_insert_dataframe raises and its transaction
\* is rolled back; the loop is left for the handler.
BronzeChunkFails ==
    /\ bronze.pc = "chunks"
    /\ bronze.i < Len(bronze.df)
    /\ bronze' = [bronze EXCEPT
                    !.pc = "failure",
                    !.attempted = @ + 1,
                    !.failed_chunk = (bronze.i \div chunksize) + 1]
    /\ UNCHANGED retail

\* Lines 240-242 and run_pipeline 345-353: _log_ingestion_success commits,
\* load_to_bronze returns total_inserted, run_pipeline returns its summary.
BronzeLogSuccess ==
    /\ bronze.pc = "chunks"
    /\ bronze.i >= Len(bronze.df)
    /\ bronze' = [bronze EXCEPT
                    !.pc = "returned",
                    !.ingestion_log =
                        UpdatedLog(@, bronze.batch_id, "SUCCESS",
                                   bronze.total_inserted, Null),
                    !.updates = Append(@, "SUCCESS"),
                    !.summary = [status |-> "SUCCESS",
                                 records_extracted |-> Len(bronze.df),
                                 records_loaded |-> bronze.total_inserted]]
    /\ UNCHANGED retail

\* Line 240: the UPDATE of _log_ingestion_success raises inside the try block.
BronzeLogSuccessFails ==
    /\ bronze.pc = "chunks"
    /\ bronze.i >= Len(bronze.df)
    /\ bronze' = [bronze EXCEPT !.pc = "failure"]
    /\ UNCHANGED retail

\* Lines 244-248: _log_ingestion_failure commits and the exception is
\* re-raised; run_pipeline re-raises it.
BronzeLogFailure ==
    /\ bronze.pc = "failure"
    /\ bronze' = [bronze EXCEPT
                    !.pc = "raised",
                    !.ingestion_log =
                        UpdatedLog(@, bronze.batch_id, "FAILED", NullInt, "error"),
                    !.updates = Append(@, "FAILED")]
    /\ UNCHANGED retail

\* Line 246: the UPDATE of _log_ingestion_failure raises; its exception is the
\* one that leaves load_to_bronze.
BronzeLogFailureFails ==
    /\ bronze.pc = "failure"
    /\ bronze' = [bronze EXCEPT !.pc = "raised"]
    /\ UNCHANGED retail

NextBronze ==
    \/ BronzeRun
    \/ BronzeExtractFails
    \/ BronzeLogStart
    \/ BronzeLogStartFails
    \/ BronzeChunk
    \/ BronzeChunkFails
    \/ BronzeLogSuccess
    \/ BronzeLogSuccessFails
    \/ BronzeLogFailure
    \/ BronzeLogFailureFails

SpecBronze == Init /\ [][NextBronze]_vars

\* Either pipeline at work on the database.  RetailDataIngestionPipeline
\* writes bronze.retail_raw and bronze.load_metadata, BronzeIngestionPipeline
\* writes bronze.online_retail_raw and bronze.ingestion_log; as no step of one
\* reads or writes a table of the other, the runs of the two are followed one
\* pipeline at a time.
NextStores ==
    \/ bronze.pc = "idle" /\ Next
    \/ pc = "idle" /\ NextBronze

SpecStores == Init /\ [][NextStores]_vars

\* ---------------------------------------------------------------- claims
\* ingest_retail_data has returned its summary.
Returned == pc = "done"

\* load_data_to_bronze was called and has returned.
LoaderReturned == Returned /\ log.hash_read # "none"

TerminalStatus == {"COMPLETED", "COMPLETED_WITH_ERRORS", "FAILED"}

\* The hashes of the rows of a DataFrame are pairwise different.
UniqueRecords(d) ==
    \A i, j \in 1..Len(d.rows) :
        i # j => generate_record_hash(Canonical(d.rows[i]))
                   # generate_record_hash(Canonical(d.rows[j]))

\* Every row of a DataFrame fits the columns of bronze.retail_raw.
Storable(d) == \A i \in 1..Len(d.rows) : ColumnsOk(BronzeRow(d.rows[i], Null, Null))

FileHashes(d) == {generate_record_hash(Canonical(d.rows[i])) : i \in 1..Len(d.rows)}

\* C1: a run that created a load attempt issues exactly one terminal update
\* for it and, once the run has returned, the persisted status of the attempt
\* is COMPLETED, COMPLETED_WITH_ERRORS or FAILED, never STARTED.
C1_TerminalStatusPersisted ==
    (Returned /\ load_id # Null) =>
        /\ Len(log.updates) = 1
        /\ load_metadata[load_id].load_status \in TerminalStatus

\* C2: idempotence.  A valid file of N unique records run against an empty
\* table reports records_loaded = N; run again, with its N records in the
\* table, it reports records_loaded = 0, N skipped, records_failed = 0 and
\* COMPLETED; the table holds N rows after either run.  (Stated for runs in
\* which the database never failed and for rows that fit the columns.)
C2_Idempotence ==
    (Returned /\ log.hash_read = "ok" /\ ~log.faulted
       /\ UniqueRecords(df) /\ Storable(df)) =>
        LET N == Len(df.rows) IN
        /\ log.store_before = 0 =>
             /\ results.records_loaded = N
             /\ Len(retail_raw) = N
        /\ (log.store_before = N /\ log.existing = FileHashes(df)) =>
             /\ results.records_loaded = 0
             /\ skipped = N
             /\ results.records_failed = 0
             /\ results.status = "COMPLETED"
             /\ Len(retail_raw) = N

\* C3: no two rows of bronze.retail_raw have the same record_hash, after any
\* sequence of runs, also of files that repeat a record.
C3_UniqueRecordHash ==
    \A i, j \in 1..Len(retail_raw) :
        i # j => retail_raw[i].record_hash # retail_raw[j].record_hash

\* C3 witness: a run on a file that repeats a record has written to a table
\* that held a row already.
C3_Witness ==
    /\ Returned
    /\ log.hash_read = "ok"
    /\ ~UniqueRecords(df)
    /\ log.store_before > 0
    /\ log.rows_written > 0

\* C4: when load_data_to_bronze has returned, records_loaded + records_failed
\* + the number of rows skipped as duplicates is the number of rows it was
\* given, also when it returned through its critical-error handler.
C4_CountsAddUp ==
    (pc = "finalize" \/ LoaderReturned) =>
        records_loaded + records_failed + skipped = Len(df.rows)

\* C4 witness: the loader returned having loaded, failed and skipped rows.
C4_Witness ==
    /\ pc = "finalize"
    /\ skipped > 0
    /\ records_loaded > 0
    /\ records_failed > 0

\* The batch whose row-by-row retry has just ended.
RetriedBatch == BatchDf(df_to_insert, batch_num - 1)
RetryEnded == pc = "batch" /\ log.chunk.retried

\* C5: fault isolation.  After the retry of a batch whose bulk write failed,
\* records_loaded has grown by the number of rows written individually,
\* records_failed by the number of rows whose write failed, and the rows
\* written are in the table; a batch of N rows that fit the table plus one
\* row that breaks a constraint gives N more loaded and 1 more failed.
C5_FaultIsolation ==
    RetryEnded =>
        /\ records_loaded = log.chunk.loaded + Len(log.chunk.ok)
        /\ records_failed = log.chunk.failed + log.chunk.ko
        /\ Len(log.chunk.ok) + log.chunk.ko = Len(RetriedBatch)
        /\ \A k \in 1..Len(log.chunk.ok) :
             \E i \in 1..Len(retail_raw) : retail_raw[i] = log.chunk.ok[k]
        /\ (/\ ~log.chunk.faulted
            /\ Cardinality({i \in 1..Len(RetriedBatch) : ~ColumnsOk(RetriedBatch[i])}) = 1) =>
             /\ records_loaded = log.chunk.loaded + Len(RetriedBatch) - 1
             /\ records_failed = log.chunk.failed + 1

UpdateVisible(u) ==
    u.committed =>
        LET row == load_metadata[u.call.load_id] IN
        /\ row.load_end_time # Null
        /\ row.load_status = u.call.status
        /\ row.records_loaded = u.call.records_loaded
        /\ row.records_failed = u.call.records_failed
        /\ row.error_message = u.call.error_message

C9_PersistFailureSurfaced ==
    (Returned /\ load_id # Null
       /\ results.status \in {"COMPLETED", "COMPLETED_WITH_ERRORS"}) =>
        load_metadata[load_id].load_status # "STARTED"

\* The database could not be reached during the load stage: the read of the
\* existing hashes failed, or no write of a row that fits the table succeeded.
StoreUnreachable ==
    \/ log.hash_read = "failed"
    \/ /\ log.load_ran
       /\ df_to_insert # <<>>
       /\ \A i \in 1..Len(df_to_insert) : ColumnsOk(df_to_insert[i])
       /\ log.rows_written = 0

\* C10: a run during whose load stage the database was unreachable is
\* finalised FAILED, not COMPLETED or COMPLETED_WITH_ERRORS.
C10_UnreachableStoreFails ==
    (LoaderReturned /\ StoreUnreachable) =>
        /\ results.status = "FAILED"
        /\ log.updates[1].call.status = "FAILED"


\* C18: a process started through the entry point exits with a non-zero
\* status whenever the run's status is FAILED, and with status 0 when the run
\* completed (with or without row errors).
C18_ExitStatusFollowsStatus ==
    pc = "exited" => (results.status = "FAILED" <=> exit_code # "0")


\* C13: validate_data_quality returns is_valid = false exactly when its list
\* of issues is not empty, the issue recorded when the date check raises
\* included.
C13_InvalidIffIssues ==
    probe.called => (probe.result.is_valid = FALSE <=> probe.result.issues # <<>>)

\* A required column is in the header under some capitalisation.
PresentIgnoringCase(d, col) == \E name \in d.columns : Lower(name) = Lower(col)

\* C16: the required-column check ignores case.  A header holding every
\* required column under some capitalisation gets no missing-column issue; a
\* header lacking one under every capitalisation gets the blocking issue.
C16_RequiredColumnsIgnoreCase ==
    probe.called =>
        LET complete == \A col \in RequiredColumns : PresentIgnoringCase(probe.df, col)
            reported == \E i \in 1..Len(probe.result.issues) :
                            probe.result.issues[i] = "Missing required columns"
        IN  /\ complete <=> ~reported
            /\ ~complete => ~probe.result.is_valid


ReadFailed ==
    /\ pc \in {"except", "done"}
    /\ load_id # Null
    /\ file_path = "retail.txt" \/ ~log.file_read

C19_EveryBatchAttempted ==
    log.hash_read = "ok" =>
        /\ \A k \in 1..Len(log.batches) : log.batches[k] = k - 1
        /\ log.bulk_writes = Len(log.batches)
        /\ Len(log.batches) = IF pc = "rows" THEN batch_num + 1 ELSE batch_num
        /\ Len(log.batches) <= TotalBatches(df_to_insert)
        /\ log.load_ran => Len(log.batches) = TotalBatches(df_to_insert)

\* C19 witness: the loader has returned after two batches, the first of
\* which failed as a whole and was retried row by row.
C19_Witness ==
    /\ log.load_ran
    /\ log.batches = <<0, 1>>
    /\ log.row_writes > batch_size
    /\ records_loaded > 0
    /\ records_failed > 0

\* The hashes bronze.retail_raw held when the run began.
HashesBefore == {retail_raw[j].record_hash : j \in 1..log.store_before}

\* The rows of the file whose hash the table held when the run began.
KnownRows ==
    {i \in 1..Len(df.rows) :
        generate_record_hash(Canonical(df.rows[i])) \in HashesBefore}

\* C20: a record whose hash is in the snapshot of existing hashes the run
\* took is never written in that run, neither by a multi-row INSERT nor by a
\* row retry, and is counted neither as loaded nor as failed.
C20_KnownHashNeverWritten ==
    log.hash_read = "ok" =>
        LET before == HashesBefore IN
        /\ log.existing = before
        /\ \A i \in 1..Len(df_to_insert) : df_to_insert[i].record_hash \notin before
        /\ \A j \in (log.store_before + 1)..Len(retail_raw) :
              retail_raw[j].record_hash \notin before
        /\ skipped = Len(df.rows) - Len(df_to_insert)
        /\ log.load_ran =>
              /\ skipped = Cardinality(KnownRows)
              /\ records_loaded + records_failed = Len(df.rows) - skipped

\* C20 witness: the loader has returned from a file of which one row was
\* known and skipped and another was written.
C20_Witness ==
    /\ log.load_ran
    /\ skipped > 0
    /\ KnownRows # {}
    /\ log.rows_written > 0


\* C15: the findings on null rates, negative prices, the price ceiling, zero
\* quantities and the date window are warnings and never clear is_valid.  A
\* file with the minimum number of rows and every required column goes on to
\* the load stage with all its rows, whatever the warnings, and all of them
\* load with records_failed = 0.  (The last part is stated for unique rows
\* that fit the columns, an empty table and a database that never failed.)
C15_WarningsDoNotBlock ==
    (Returned /\ log.file_read /\ Len(df.rows) >= min_records
       /\ RequiredColumns \subseteq df.columns
       /\ results.validation_results.warnings # <<>>) =>
        /\ results.validation_results.is_valid
        /\ log.hash_read # "none"
        /\ log.hash_read = "ok" => Len(df_to_insert) + skipped = Len(df.rows)
        /\ (log.hash_read = "ok" /\ ~log.faulted /\ log.store_before = 0
              /\ UniqueRecords(df) /\ Storable(df)) =>
                /\ results.records_loaded = Len(df.rows)
                /\ results.records_failed = 0


\* The six source columns of a row dictionary, load_timestamp, load_id,
\* source_file, description and country left out.
SourceKey(record) ==
    [f \in {"invoice", "stock_code", "quantity", "invoice_date", "unit_price",
            "customer_id"} |-> IF f = "quantity" THEN ToString(record.quantity)
                               ELSE record[f]]

RowsWithHash(h) == {i \in 1..Len(retail_raw) : retail_raw[i].record_hash = h}

\* C11: two invocations run side by side on files that share a record, each
\* reading the existing hashes once and both before either writes.  When both
\* have returned, bronze.retail_raw holds no more than one row with the hash
\* of a shared record, and the records_loaded of the two runs add up to the
\* number of rows the two added.
C11_RaceLeavesOneRecord ==
    (Returned /\ peer.pc = "done" /\ peer.raced) =>
        /\ \A h \in FileHashes(df) \cap FileHashes(peer.df) :
              Cardinality(RowsWithHash(h)) <= 1
        /\ results.records_loaded + peer.records_loaded
             = Len(retail_raw) - log.store_before

\* ------------------------------------------------------------------- C26
\* create_load_metadata_record raised in the current run.
CreateFailed ==
    /\ pc \in {"except", "done"}
    /\ error_message = "Failed to create load metadata"

\* C26: when creating the load attempt fails, ingest_retail_data returns status
\* FAILED with load_id None; the file was not read, the Bronze table holds what
\* it held when the run began, no load attempt was added and no update of a
\* load attempt was issued.
C26_CreateFailureFailsRun ==
    CreateFailed =>
        /\ load_id = Null
        /\ results.load_id = Null
        /\ ~log.file_read
        /\ df = NoFrame
        /\ results.records_processed = 0
        /\ log.hash_read = "none"
        /\ log.bulk_writes = 0 /\ log.row_writes = 0
        /\ Len(retail_raw) = log.store_before
        /\ log.updates = <<>>
        /\ Returned => /\ results.status = "FAILED"
                       /\ results.error_message = error_message
                       /\ results.end_time # Null

\* A second run whose load attempt could not be created has returned; the
\* first run had stored a row.
C26_Witness ==
    /\ Returned
    /\ CreateFailed
    /\ results.status = "FAILED"
    /\ retail_raw # <<>>
    /\ \E lid \in DOMAIN load_metadata : load_metadata[lid].load_status = "COMPLETED"

\* ------------------------------------------------------------------- C21
\* The load attempt of the current run exists and is still STARTED.
AttemptStarted ==
    /\ load_id \in DOMAIN load_metadata
    /\ load_metadata[load_id].load_status = "STARTED"

\* C21: in every step of ingest_retail_data the five stages keep their order:
\* the load attempt is created before anything else, the file is read while
\* the attempt is STARTED, validation follows the read, the load follows a
\* passed validation, and the one update of the attempt comes last; a step
\* that writes to the Bronze table is taken only while the attempt exists and
\* no update of it has been issued.
C21_StepsInOrder ==
    [][/\ DOMAIN load_metadata' # DOMAIN load_metadata =>
            /\ ~log.file_read
            /\ log.hash_read = "none"
            /\ log.updates = <<>>
            /\ Len(retail_raw) = log.store_before
       /\ (~log.file_read /\ log'.file_read) =>
            /\ AttemptStarted
            /\ log.hash_read = "none"
            /\ log.updates = <<>>
       /\ (pc = "validate" /\ pc' # pc) =>
            /\ AttemptStarted
            /\ log.file_read
            /\ log.hash_read = "none"
            /\ log.updates = <<>>
       /\ (log.hash_read = "none" /\ log'.hash_read # "none") =>
            /\ AttemptStarted
            /\ log.file_read
            /\ results.validation_results.is_valid
            /\ log.updates = <<>>
       /\ retail_raw' # retail_raw =>
            /\ AttemptStarted
            /\ log.hash_read = "ok"
            /\ log.updates = <<>>
            /\ log'.updates = <<>>
       /\ log'.updates # log.updates =>
            /\ log.updates = <<>> \/ log'.updates = <<>>
            /\ retail_raw' = retail_raw
            /\ log'.updates # <<>> =>
                 /\ pc' = "done"
                 /\ AttemptStarted
                 /\ log'.updates[1].call.status = "COMPLETED" => log.hash_read # "none"
      ]_vars

\* A run went through all five stages: rows were written and the one update
\* set the attempt to COMPLETED.
C21_Witness ==
    /\ Returned
    /\ log.file_read
    /\ log.load_ran
    /\ log.rows_written > 0
    /\ Len(log.updates) = 1
    /\ load_id \in DOMAIN load_metadata
    /\ load_metadata[load_id].load_status = "COMPLETED"

\* ------------------------------------------------------------------- C30
\* The rows of the batches the loop has finished with: batch_num whole batches,
\* the last of which may be short.
RowsProcessed == Min(batch_num * batch_size, Len(df_to_insert))

\* C30: wherever load_data_to_bronze stands, records_failed is not negative and
\* records_loaded is at most the number of rows of df_to_insert; between two
\* batches, and when the loop has ended, records_loaded + records_failed is the
\* number of rows of the batches processed so far; inside a retry the whole
\* batch is counted, every row once.
C30_CountersInBounds ==
    /\ pc \in {"batch", "rows", "finalize"} =>
         /\ records_failed >= 0
         /\ records_loaded >= 0
         /\ records_loaded <= Len(df_to_insert)
    /\ pc = "batch" => records_loaded + records_failed = RowsProcessed
    /\ pc = "rows" =>
         /\ records_loaded + records_failed =
               batch_num * batch_size + Len(BatchDf(df_to_insert, batch_num))
         /\ records_failed >= Len(BatchDf(df_to_insert, batch_num)) - row_num

\* A retried batch has been processed in full: one of its rows was written,
\* another was refused, and a batch is still to come.
C30_Witness ==
    /\ pc = "batch"
    /\ log.chunk.retried
    /\ records_loaded > 0
    /\ records_failed > 0
    /\ 0 < batch_num /\ batch_num < TotalBatches(df_to_insert)

\* ------------------------------------------------------------------- C24
\* How often a row is held by a sequence of rows.
Occurrences(rows, row) == Cardinality({j \in 1..Len(rows) : rows[j] = row})

\* C24: in load_data_to_bronze a step that fails a bulk write leaves the table
\* as it was and starts the retry at the first row of the same batch; a step
\* that writes appends either the whole current batch and moves to the next
\* batch, or the current row of the retried batch and moves to the next row;
\* the loop never goes back.  Hence no row of df_to_insert is stored more often
\* than df_to_insert holds it.
C24_RowStoredAtMostOnce ==
    [][/\ (pc = "batch" /\ pc' = "rows") =>
            /\ retail_raw' = retail_raw
            /\ batch_num' = batch_num
            /\ row_num' = 0
       /\ retail_raw' # retail_raw =>
            \/ /\ pc = "batch" /\ pc' = "batch"
               /\ retail_raw' = retail_raw \o BatchDf(df_to_insert, batch_num)
               /\ batch_num' = batch_num + 1
            \/ /\ pc = "rows"
               /\ retail_raw' =
                    Append(retail_raw, BatchDf(df_to_insert, batch_num)[row_num + 1])
               /\ \/ pc' = "rows" /\ batch_num' = batch_num /\ row_num' = row_num + 1
                  \/ pc' = "batch" /\ batch_num' = batch_num + 1
       /\ (pc \in {"batch", "rows"} /\ pc' \in {"batch", "rows"}) =>
            /\ df_to_insert' = df_to_insert
            /\ batch_num' >= batch_num
            /\ batch_num' = batch_num => row_num' >= row_num
       /\ pc' \in {"batch", "rows", "finalize"} =>
            \A i \in 1..Len(df_to_insert') :
                Occurrences(retail_raw', df_to_insert'[i])
                    <= Occurrences(df_to_insert', df_to_insert'[i])
      ]_vars

\* The bulk write of a batch of several rows failed and the retry, now over,
\* wrote one of them: the table holds that row once.
C24_Witness ==
    /\ pc = "batch"
    /\ log.chunk.retried
    /\ Len(RetriedBatch) > 1
    /\ Len(log.chunk.ok) = 1
    /\ Occurrences(retail_raw, log.chunk.ok[1]) = 1

\* ------------------------------------------------------------------- C23
\* Where the loop of load_data_to_bronze stands: the batches in order, within
\* a retried batch its rows in order.
Position == batch_num * (batch_size + 1) + (IF pc = "rows" THEN row_num + 1 ELSE 0)

\* An invocation of ingest_retail_data is under way.
Running == pc \notin {"idle", "done"}

\* C23: every invocation of ingest_retail_data returns; the summary it returns
\* has status COMPLETED, COMPLETED_WITH_ERRORS or FAILED and end_time set.  The
\* loader attempts at most one bulk write per batch and at most one write per
\* row of df_to_insert, every attempt moving the loop forward, and the load
\* attempt is updated at most once: nothing is tried again in a loop.
C23_TerminatesWithSummary ==
    /\ [](Returned => /\ results.status \in TerminalStatus
                      /\ results.end_time # Null)
    /\ [](/\ log.bulk_writes <= TotalBatches(df_to_insert)
          /\ log.row_writes <= Len(df_to_insert)
          /\ Len(log.updates) <= 1)
    /\ [][/\ log'.bulk_writes > log.bulk_writes =>
                /\ pc = "batch"
                /\ log'.bulk_writes = log.bulk_writes + 1
                /\ log'.row_writes = log.row_writes
                /\ Position' > Position
          /\ log'.row_writes > log.row_writes =>
                /\ pc = "rows"
                /\ log'.row_writes = log.row_writes + 1
                /\ log'.bulk_writes = log.bulk_writes
                /\ Position' > Position
         ]_vars
    /\ Running ~> Returned

\* An invocation that attempted rows a second time, one by one, has returned.
C23_Witness ==
    /\ Returned
    /\ results.status = "COMPLETED_WITH_ERRORS"
    /\ results.end_time = "now"
    /\ log.bulk_writes >= 1
    /\ log.row_writes >= 2
    /\ Len(log.updates) = 1

\* ------------------------------------------------------------------- C25
\* The rows the table held when the run began that carry the six hashed
\* fields of row i of the file.
StoredTwins(i) ==
    {j \in 1..log.store_before :
        SourceKey(retail_raw[j].data) = SourceKey(Canonical(df.rows[i]))}

\* C25: the hash of a row is fixed by invoice, stock_code, quantity,
\* invoice_date, unit_price and customer_id.  A row of the file that agrees in
\* these six with a row the table already held, whatever its description and
\* country, has that row's hash, is counted as skipped, is not in df_to_insert
\* and is not written by the run.
C25_TextFieldsNotHashed ==
    log.hash_read = "ok" =>
        /\ \A i \in 1..Len(df.rows) : \A j \in StoredTwins(i) :
              /\ BronzeRow(df.rows[i], file_path, load_id).record_hash
                    = retail_raw[j].record_hash
              /\ \A k \in 1..Len(df_to_insert) :
                    df_to_insert[k].data # Canonical(df.rows[i])
              /\ \A k \in (log.store_before + 1)..Len(retail_raw) :
                    retail_raw[k].data # Canonical(df.rows[i])
        /\ skipped >= Cardinality({i \in 1..Len(df.rows) : StoredTwins(i) # {}})

\* The table held the record with one description and country; a later run
\* read it with another description and country, skipped it and returned.
C25_Witness ==
    /\ Returned
    /\ log.load_ran
    /\ \E j \in 1..log.store_before : retail_raw[j].data = Canonical(RecA)
    /\ \E i \in 1..Len(df.rows) : df.rows[i] = RecOtherText
    /\ skipped = Len(df.rows)
    /\ \A k \in 1..Len(retail_raw) : retail_raw[k].data # Canonical(RecOtherText)

\* ----------------------------------------------------------- C27, C28, C29
\* The entries of bronze.ingestion_log of the batch of the current run.
BatchEntries ==
    {k \in 1..Len(bronze.ingestion_log) :
        bronze.ingestion_log[k].batch_id = bronze.batch_id}

\* load_to_bronze has been left, by return or by exception.
BronzeEnded == bronze.pc \in {"returned", "raised"}

\* C27 (as stated): the RUNNING entry of the batch exists before a chunk is
\* written; once load_to_bronze has been left the entry was updated exactly
\* once, to SUCCESS when every chunk was inserted and to FAILED, with the
\* exception raised, when a chunk insert raised; an entry is FAILED only if a
\* chunk insert raised.
C27_LogFollowsChunks ==
    /\ bronze.attempted > 0 => BatchEntries # {}
    /\ (BronzeEnded /\ BatchEntries # {}) =>
         /\ Len(bronze.updates) = 1
         /\ \A k \in BatchEntries :
              bronze.ingestion_log[k].status =
                  IF bronze.failed_chunk = 0 THEN "SUCCESS" ELSE "FAILED"
         /\ bronze.failed_chunk # 0 => bronze.pc = "raised"
    /\ \A k \in BatchEntries :
         bronze.ingestion_log[k].status = "FAILED" => bronze.failed_chunk # 0

\* The rows the run has added to bronze.online_retail_raw.
BronzeAdded ==
    SubSeq(bronze.online_retail_raw, bronze.store_before + 1,
           Len(bronze.online_retail_raw))

\* C28 (as stated): when the insert of chunk k raised, the table holds, beside
\* what it held before the run, exactly the rows of the chunks before k, chunk
\* k was the last one attempted, and when load_to_bronze has been left the
\* entry of the batch is FAILED and the exception has reached the caller.
C28_FailFastLogged ==
    bronze.failed_chunk # 0 =>
        /\ BronzeAdded = SubSeq(bronze.df, 1, (bronze.failed_chunk - 1) * chunksize)
        /\ bronze.attempted = bronze.failed_chunk
        /\ bronze.pc \in {"failure", "raised"}
        /\ bronze.pc = "raised" =>
             \A k \in BatchEntries : bronze.ingestion_log[k].status = "FAILED"

\* C29: a run of run_pipeline that returns reports SUCCESS with records_loaded
\* equal to records_extracted, the number of records of the file, and has
\* appended every record of the file, in order, to what the table held,
\* whether or not the table already held records with the same content.
C29_NoDuplicateFiltering ==
    bronze.pc = "returned" =>
        /\ bronze.summary.status = "SUCCESS"
        /\ bronze.summary.records_extracted = Len(bronze.df)
        /\ bronze.summary.records_loaded = bronze.summary.records_extracted
        /\ BronzeAdded = bronze.df
        /\ \A k \in 1..Len(bronze.df) :
             Cardinality({j \in 1..Len(bronze.online_retail_raw) :
                            bronze.online_retail_raw[j].data = bronze.df[k].data})
               = Cardinality({j \in 1..bronze.store_before :
                            bronze.online_retail_raw[j].data = bronze.df[k].data})
                 + Cardinality({j \in 1..Len(bronze.df) :
                            bronze.df[j].data = bronze.df[k].data})

\* The same file of several chunks was run twice, both runs returned: the
\* table holds the file twice, record for record.
C29_Witness ==
    /\ bronze.pc = "returned"
    /\ bronze.runs = 2
    /\ Len(bronze.df) > chunksize
    /\ Len(bronze.online_retail_raw) = 2 * Len(bronze.df)
    /\ \A k \in 1..Len(bronze.df) :
         /\ bronze.online_retail_raw[k].data = bronze.df[k].data
         /\ bronze.online_retail_raw[Len(bronze.df) + k].data = bronze.df[k].data
         /\ bronze.online_retail_raw[k].record_hash = bronze.df[k].record_hash
    /\ bronze.summary.records_loaded = Len(bronze.df)

\* ------------------------------------------------------------------- C22
\* Table before is still there, row for row, at the head of table after.
KeptIn(before, after) ==
    /\ Len(before) <= Len(after)
    /\ SubSeq(after, 1, Len(before)) = before

\* C22: every step of either pipeline leaves the rows its Bronze table held in
\* place and unchanged; all it may do is add rows after them.  This holds for
\* the steps of runs that succeed and of runs that fail.
C22_AppendOnly ==
    [][/\ KeptIn(retail_raw, retail_raw')
       /\ KeptIn(bronze.online_retail_raw, bronze'.online_retail_raw)
      ]_vars

\* A run of load_to_bronze on a table that held rows wrote its first chunk,
\* failed on the second and raised: the table holds the old rows and the chunk.
C22_Witness ==
    /\ bronze.pc = "raised"
    /\ bronze.store_before > 0
    /\ bronze.failed_chunk = 2
    /\ Len(bronze.online_retail_raw) = bronze.store_before + chunksize

====
